---- MODULE Spec2Model ----
(***************************************************************************)
(* Model of the ME 405 plotter firmware: the TMC4210/TMC2208 stepper       *)
(* driver (stepper_driver.py) and the two cooperative tasks with their     *)
(* top-level loop (tasks.py).                                              *)
(*                                                                         *)
(* A datagram is a sequence of four bytes; Python's send[i] is send[i+1]   *)
(* here.  A register of the IC is the triple of its three payload bytes.   *)
(***************************************************************************)
EXTENDS Integers, Sequences, FiniteSets, TLC

VARIABLES
    build,      \* how the interpreter stores an out-of-range value in a bytearray
    drivers,    \* the three Stepper_Driver objects with the IC behind each
    last,       \* the last driver operation called directly, and its outcome
    polls,      \* results of homing_in_progress() since the last home()
    firedAt,    \* index of the first poll that reads the latch as fired (0: none yet)
    mainpc,     \* position of __main__, and the parity of the turns of the loop it is in
    hpgl,       \* the drawing file: what planning it yields, and what is wrong with it
    cmd_list,   \* the planned command list
    share_button_flag, share_cmd_type, share_theta0, share_theta1,
    cmds,       \* task_cmds_fun: its position and locals
    comms,      \* task_comms_fun: its position and locals
    uart,       \* records written to UART2, oldest first
    ev,         \* what the last scheduler pass did
    pubs,       \* the pen kinds task_cmds_fun has published, oldest first
    isr_error   \* whether the button handler has raised

vars == <<build, drivers, last, polls, firedAt, mainpc, hpgl, cmd_list,
          share_button_flag, share_cmd_type, share_theta0, share_theta1,
          cmds, comms, uart, ev, pubs, isr_error>>

drvVars == <<build, drivers, last, polls, firedAt>>
progVars == <<mainpc, hpgl, cmd_list, share_button_flag, share_cmd_type,
              share_theta0, share_theta1, cmds, comms, uart, ev, pubs, isr_error>>

----------------------------------------------------------------------------
(* Bounds of the model *)

MaxPolls == 3
MaxCmds == 2
MaxPts == 2
MaxUart == 2
WideXMax == 70000

----------------------------------------------------------------------------
(* Program constants *)

MOTOR_X_MAX == 20000
TYPE_PEN_UP == 1
TYPE_PEN_DOWN == 2
TYPE_CMDS_DONE == 3
TYPE_COMMS_DONE == 4
PEN_DOWN_MS == 291
PEN_UP_MS == 177
TASK_CMDS_PRIORITY == 1
TASK_COMMS_PRIORITY == 2
PULSE_DIV == 5
RAMP_DIV == 5
MOTOR12_V_MIN == 10
MOTOR3_V_MIN == 1
V_MAX_SETTING == 400
MOTOR12_A_MAX_SETTING == 27
MOTOR3_A_MAX_SETTING == 20
MOTOR12_PMUL == 212
MOTOR3_PMUL == 157
MOTOR_PDIV == 7
MOTOR1_HOMING_V_MAX == 80
MOTOR23_HOMING_V_MAX == 160
MAIN_EXIT_TYPE == 3
NoShare == -1

\* register addresses of the IC: the datagram's first byte without its read bit
IDX_X_TARGET == 0
IDX_X_ACTUAL == 1
IDX_V_MIN == 2
IDX_V_MAX == 3
IDX_A_MAX == 6
IDX_PMUL_PDIV == 9
IDX_REFCONF_RM == 10
IDX_PULSE_RAMP_DIV == 12
IDX_X_LATCHED == 14
IDX_IF_CONF == 52

RegIdx == {IDX_X_TARGET, IDX_X_ACTUAL, IDX_V_MIN, IDX_V_MAX, IDX_A_MAX,
           IDX_PMUL_PDIV, IDX_REFCONF_RM, IDX_PULSE_RAMP_DIV, IDX_X_LATCHED,
           IDX_IF_CONF}

Axes == 1..3

----------------------------------------------------------------------------
(* Python integer and bytearray operations *)

RECURSIVE BitAnd(_, _)
\* a & b for a, b >= 0
BitAnd(a, b) ==
    IF a = 0 \/ b = 0 THEN 0
    ELSE (a % 2) * (b % 2) + 2 * BitAnd(a \div 2, b \div 2)

RECURSIVE BitOr(_, _)
\* a | b for a, b >= 0
BitOr(a, b) ==
    IF a = 0 THEN b
    ELSE IF b = 0 THEN a
    ELSE (IF a % 2 = 1 \/ b % 2 = 1 THEN 1 ELSE 0) + 2 * BitOr(a \div 2, b \div 2)

\* v does not fit a bytearray element
OutOfByte(v) == v < 0 \/ v > 255

\* bytearray[i] = v raises ValueError under CPython; MicroPython keeps the low byte
StoreRaises(v) == OutOfByte(v) /\ build = "cpython"
Stored(v) == v % 256

\* int.from_bytes(recv[1:], 'big', False)
FromBytes(b) == b[1] * 65536 + b[2] * 256 + b[3]

----------------------------------------------------------------------------
(* The IC behind the bus *)

\* what a read of register idx returns: the latch bit lp is bit 16 of the
\* reference-configuration register and is owned by the IC
ReadReg(drv, idx) ==
    IF idx = IDX_REFCONF_RM
    THEN <<drv.lp, drv.regs[idx][2], drv.regs[idx][3]>>
    ELSE drv.regs[idx]

\* a write of register idx: a write to X_LATCHED arms the latch (lp = 1)
WriteReg(drv, idx, payload) ==
    [drv EXCEPT !.regs[idx] = payload,
                !.lp = IF idx = IDX_X_LATCHED THEN 1 ELSE @]

----------------------------------------------------------------------------
(* Stepper_Driver *)

\* result of a driver method: the object afterwards, whether it raised, its value
Ret(drv, err, val) == [drv |-> drv, err |-> err, val |-> val]

\* the log keeps each datagram sent, followed for a read by the datagram received
send_recv(drv, send) ==
    LET idx == send[1] \div 2
        read == send[1] % 2 = 1
        after == IF read THEN drv
                 ELSE WriteReg(drv, idx, <<send[2], send[3], send[4]>>)
        recv == <<0>> \o ReadReg(drv, idx)
    IN [drv |-> [after EXCEPT !.log = Append(@, send \o (IF read THEN recv ELSE <<0, 0, 0, 0>>))],
        recv |-> recv]

enable_step_dir(drv) ==
    send_recv(drv, <<104, 0, 0, 33>>).drv

set_ramp_mode(drv, mode) ==
    send_recv(drv, <<20, 0, 0, IF mode = "velocity_mode" THEN 2 ELSE 0>>).drv

enable(drv) == [drv EXCEPT !.en = 0]

disable(drv) == [drv EXCEPT !.en = 1]

\* set_target without its limit to x_max
set_target_unlimited(drv, x_target) ==
    LET b1 == x_target \div 65536
        b2 == (x_target \div 256) % 256
        b3 == x_target % 256
    IN IF StoreRaises(b1) THEN Ret(drv, TRUE, FALSE)
       ELSE Ret(send_recv(drv, <<0, Stored(b1), b2, b3>>).drv, FALSE, FALSE)

set_target(drv, x_target) ==
    LET x == IF x_target > drv.x_max THEN drv.x_max ELSE x_target
        b1 == x \div 65536
        b2 == (x \div 256) % 256
        b3 == x % 256
    IN IF StoreRaises(b1) THEN Ret(drv, TRUE, FALSE)
       ELSE Ret(send_recv(drv, <<0, Stored(b1), b2, b3>>).drv, FALSE, FALSE)

target_reached(drv, x_target) ==
    LET r == send_recv(drv, <<3, 0, 0, 0>>)
    IN Ret(r.drv, FALSE, FromBytes(SubSeq(r.recv, 2, 4)) = x_target)

\* set_position that goes back to ramp mode before it writes X_ACTUAL
set_position_restore_first(drv, x_target) ==
    LET x == IF x_target > drv.x_max THEN drv.x_max ELSE x_target
        d1 == set_ramp_mode(drv, "velocity_mode")
        t == set_target(d1, x)
        b1 == x \div 65536
        b2 == (x \div 256) % 256
        b3 == x % 256
        d3 == set_ramp_mode(t.drv, "ramp_mode")
    IN IF t.err \/ StoreRaises(b1) THEN Ret(t.drv, TRUE, FALSE)
       ELSE Ret(send_recv(d3, <<2, Stored(b1), b2, b3>>).drv, FALSE, FALSE)

set_position(drv, x_target) ==
    LET x == IF x_target > drv.x_max THEN drv.x_max ELSE x_target
        d1 == set_ramp_mode(drv, "velocity_mode")
        t == set_target(d1, x)
        b1 == x \div 65536
        b2 == (x \div 256) % 256
        b3 == x % 256
        d3 == send_recv(t.drv, <<2, Stored(b1), b2, b3>>).drv
    IN IF t.err \/ StoreRaises(b1) THEN Ret(t.drv, TRUE, FALSE)
       ELSE Ret(set_ramp_mode(d3, "ramp_mode"), FALSE, FALSE)

\* home that writes target 0 before it clears the latched value
home_target_before_latch(drv) ==
    LET p == set_position(drv, drv.x_max)
        r == send_recv(p.drv, <<21, 0, 0, 0>>)
        w == <<20, r.recv[2], BitOr(BitAnd(r.recv[3], 240), 2), r.recv[4]>>
        d2 == send_recv(r.drv, w).drv
        t == set_target(d2, 0)
        d3 == send_recv(t.drv, <<28, 0, 0, 0>>).drv
    IN IF p.err THEN p ELSE Ret(d3, t.err, FALSE)

home(drv) ==
    LET p == set_position(drv, drv.x_max)
        r == send_recv(p.drv, <<21, 0, 0, 0>>)
        w == <<20, r.recv[2], BitOr(BitAnd(r.recv[3], 240), 2), r.recv[4]>>
        d2 == send_recv(r.drv, w).drv
        d3 == send_recv(d2, <<28, 0, 0, 0>>).drv
        t == set_target(d3, 0)
    IN IF p.err THEN p ELSE t

\* homing_in_progress with the test of lp inverted
homing_in_progress_inverted(drv) ==
    LET r == send_recv(drv, <<21, 0, 0, 0>>)
        lp == BitAnd(r.recv[2], 1)
        r2 == send_recv(r.drv, <<21, 0, 0, 0>>)
        w == <<20, r2.recv[2], BitOr(BitAnd(r2.recv[3], 240), 3), r2.recv[4]>>
        d2 == send_recv(r2.drv, w).drv
        p == set_position(d2, 0)
    IN IF lp # 0 THEN Ret(p.drv, p.err, FALSE)
       ELSE Ret(r.drv, FALSE, TRUE)

homing_in_progress(drv) ==
    LET r == send_recv(drv, <<21, 0, 0, 0>>)
        lp == BitAnd(r.recv[2], 1)
        r2 == send_recv(r.drv, <<21, 0, 0, 0>>)
        w == <<20, r2.recv[2], BitOr(BitAnd(r2.recv[3], 240), 3), r2.recv[4]>>
        d2 == send_recv(r2.drv, w).drv
        p == set_position(d2, 0)
    IN IF lp = 0 THEN Ret(p.drv, p.err, FALSE)
       ELSE Ret(r.drv, FALSE, TRUE)

\* set_pulse_div that does not keep the low nibble it read
set_pulse_div_clobber(drv, pulse_div) ==
    LET r == send_recv(drv, <<25, 0, 0, 0>>)
        v == pulse_div * 16
    IN IF StoreRaises(v) THEN Ret(r.drv, TRUE, FALSE)
       ELSE Ret(send_recv(r.drv, <<24, r.recv[2], Stored(v), r.recv[4]>>).drv, FALSE, FALSE)

set_pulse_div(drv, pulse_div) ==
    LET r == send_recv(drv, <<25, 0, 0, 0>>)
        v == BitOr(BitAnd(r.recv[3], 15), pulse_div * 16)
    IN IF StoreRaises(v) THEN Ret(r.drv, TRUE, FALSE)
       ELSE Ret(send_recv(r.drv, <<24, r.recv[2], Stored(v), r.recv[4]>>).drv, FALSE, FALSE)

\* set_ramp_div that writes the register without reading it
set_ramp_div_blind(drv, ramp_div) ==
    IF StoreRaises(ramp_div) THEN Ret(drv, TRUE, FALSE)
    ELSE Ret(send_recv(drv, <<24, 0, Stored(ramp_div), 0>>).drv, FALSE, FALSE)

set_ramp_div(drv, ramp_div) ==
    LET r == send_recv(drv, <<25, 0, 0, 0>>)
        v == BitOr(BitAnd(r.recv[3], 240), ramp_div)
    IN IF StoreRaises(v) THEN Ret(r.drv, TRUE, FALSE)
       ELSE Ret(send_recv(r.drv, <<24, r.recv[2], Stored(v), r.recv[4]>>).drv, FALSE, FALSE)

\* set_pmul that writes zero to the byte of PDIV
set_pmul_zero_pdiv(drv, pmul) ==
    LET r == send_recv(drv, <<19, 0, 0, 0>>)
        v == BitOr(BitAnd(r.recv[3], 128), pmul)
    IN IF StoreRaises(v) THEN Ret(r.drv, TRUE, FALSE)
       ELSE Ret(send_recv(r.drv, <<18, r.recv[2], Stored(v), 0>>).drv, FALSE, FALSE)

set_pmul(drv, pmul) ==
    LET r == send_recv(drv, <<19, 0, 0, 0>>)
        v == BitOr(BitAnd(r.recv[3], 128), pmul)
    IN IF StoreRaises(v) THEN Ret(r.drv, TRUE, FALSE)
       ELSE Ret(send_recv(r.drv, <<18, r.recv[2], Stored(v), r.recv[4]>>).drv, FALSE, FALSE)

set_pdiv(drv, pdiv) ==
    LET r == send_recv(drv, <<19, 0, 0, 0>>)
        v == BitOr(BitAnd(r.recv[4], 240), pdiv)
    IN IF StoreRaises(v) THEN Ret(r.drv, TRUE, FALSE)
       ELSE Ret(send_recv(r.drv, <<18, r.recv[2], r.recv[3], Stored(v)>>).drv, FALSE, FALSE)

set_velocity(drv, v_min, v_max) ==
    LET d1 == send_recv(drv, <<4, 0, (v_min \div 256) % 256, v_min % 256>>).drv
    IN send_recv(d1, <<6, 0, (v_max \div 256) % 256, v_max % 256>>).drv

set_acceleration(drv, acceleration) ==
    send_recv(drv, <<12, 0, (acceleration \div 256) % 256, acceleration % 256>>).drv

\* the IC and the enable pin before the constructor runs: registers at their
\* reset value, latch not armed, en created with value=1
PowerOn(x_max) ==
    [x_max |-> x_max, regs |-> [i \in RegIdx |-> <<0, 0, 0>>], lp |-> 0, en |-> 1,
     log |-> <<>>]

Fresh(drv) == [drv EXCEPT !.log = <<>>]

\* Stepper_Driver.__init__ with arguments that fit their fields, on the IC as it is
Stepper_Driver_init(drv, v_min, v_max, pulse_div, ramp_div, a_max, pmul, pdiv) ==
    LET d1 == enable_step_dir(drv)
        d2 == set_velocity(d1, v_min, v_max)
        d3 == set_pulse_div(d2, pulse_div).drv
        d4 == set_ramp_div(d3, ramp_div).drv
        d5 == set_acceleration(d4, a_max)
        d6 == set_pmul(d5, pmul).drv
        d7 == set_pdiv(d6, pdiv).drv
    IN set_ramp_mode(d7, "ramp_mode")

\* a driver object constructed on an IC at its reset values
Stepper_Driver(x_max, v_min, v_max, pulse_div, ramp_div, a_max, pmul, pdiv) ==
    Fresh(Stepper_Driver_init(PowerOn(x_max), v_min, v_max, pulse_div, ramp_div, a_max,
                              pmul, pdiv))

\* the arguments __main__ constructs driver1, driver2 and driver3 with
VMinOf(a) == IF a = 3 THEN MOTOR3_V_MIN ELSE MOTOR12_V_MIN
AMaxOf(a) == IF a = 3 THEN MOTOR3_A_MAX_SETTING ELSE MOTOR12_A_MAX_SETTING
PMulOf(a) == IF a = 3 THEN MOTOR3_PMUL ELSE MOTOR12_PMUL

\* driver1, driver2, driver3 as __main__ constructs them
MainDriver(a) ==
    Stepper_Driver(MOTOR_X_MAX, VMinOf(a), V_MAX_SETTING, PULSE_DIV, RAMP_DIV,
                   AMaxOf(a), PMulOf(a), MOTOR_PDIV)

----------------------------------------------------------------------------
(* The axis itself *)

XTarget(drv) == FromBytes(drv.regs[IDX_X_TARGET])
XActual(drv) == FromBytes(drv.regs[IDX_X_ACTUAL])
RampMode(drv) == drv.regs[IDX_REFCONF_RM][3] % 4
RefConf(drv) == drv.regs[IDX_REFCONF_RM][2] % 16

\* in ramp mode the IC steps the motor until X_ACTUAL equals X_TARGET
MotorArrives(a) ==
    /\ RampMode(drivers[a]) = 0
    /\ XActual(drivers[a]) # XTarget(drivers[a])
    /\ drivers' = [drivers EXCEPT ![a].regs[IDX_X_ACTUAL] = drivers[a].regs[IDX_X_TARGET]]

\* the limit switch fires: the IC latches the position and clears lp
SwitchFires(a) ==
    /\ drivers[a].lp = 1
    /\ drivers' = [drivers EXCEPT ![a].lp = 0]

----------------------------------------------------------------------------
(* Driver operations called one at a time on axis 1, with arbitrary arguments *)

TargetInputs(x_max) ==
    {-1, 0, 256, 65536, x_max, x_max + 1000, 16777215}

PositionInputs(x_max) == {-1, 0, 256, x_max + 1000}

IdleProg ==
    /\ mainpc = "off"
    /\ hpgl = [list |-> <<>>, fault |-> "none"]
    /\ cmd_list = <<>>
    /\ share_button_flag = 0
    /\ share_cmd_type = 0
    /\ share_theta0 = <<0, 0>>
    /\ share_theta1 = <<0, 0>>
    /\ cmds = [pc |-> "off"]
    /\ comms = [pc |-> "off"]
    /\ uart = <<>>
    /\ ev = [task |-> "none"]
    /\ pubs = <<>>
    /\ isr_error = FALSE

DrvInit ==
    /\ build \in {"cpython", "micropython"}
    /\ \E xm \in {MOTOR_X_MAX, WideXMax} :
          drivers = [a \in Axes |->
                       IF a = 1
                       THEN Stepper_Driver(xm, MOTOR12_V_MIN, V_MAX_SETTING, PULSE_DIV,
                                           RAMP_DIV, MOTOR12_A_MAX_SETTING, MOTOR12_PMUL,
                                           MOTOR_PDIV)
                       ELSE MainDriver(a)]
    /\ last = [op |-> "init", arg |-> 0, err |-> FALSE, val |-> FALSE]
    /\ polls = <<>>
    /\ firedAt = 1
    /\ IdleProg

Called(op, arg, r) ==
    /\ drivers' = [drivers EXCEPT ![1] = r.drv]
    /\ last' = [op |-> op, arg |-> arg, err |-> r.err, val |-> r.val]

CallSetTarget ==
    /\ \E x \in TargetInputs(drivers[1].x_max) :
          Called("set_target", x, set_target(Fresh(drivers[1]), x))
    /\ UNCHANGED <<build, polls, firedAt>>
    /\ UNCHANGED progVars

CallTargetReached ==
    /\ \E x \in {0, drivers[1].x_max} :
          Called("target_reached", x, target_reached(Fresh(drivers[1]), x))
    /\ UNCHANGED <<build, polls, firedAt>>
    /\ UNCHANGED progVars

CallSetPosition ==
    /\ \E x \in PositionInputs(drivers[1].x_max) :
          Called("set_position", x, set_position(Fresh(drivers[1]), x))
    /\ UNCHANGED <<build, polls, firedAt>>
    /\ UNCHANGED progVars

CallHome ==
    /\ Called("home", 0, home(Fresh(drivers[1])))
    /\ polls' = <<>>
    /\ firedAt' = 0
    /\ UNCHANGED build
    /\ UNCHANGED progVars

CallHomingInProgress ==
    /\ Len(polls) < MaxPolls
    /\ LET r == homing_in_progress(Fresh(drivers[1]))
       IN /\ Called("homing_in_progress", 0, r)
          /\ polls' = Append(polls, r.val)
    /\ UNCHANGED <<build, firedAt>>
    /\ UNCHANGED progVars

CallEnable ==
    /\ Called("enable", 0, Ret(enable(Fresh(drivers[1])), FALSE, FALSE))
    /\ UNCHANGED <<build, polls, firedAt>>
    /\ UNCHANGED progVars

CallDisable ==
    /\ Called("disable", 0, Ret(disable(Fresh(drivers[1])), FALSE, FALSE))
    /\ UNCHANGED <<build, polls, firedAt>>
    /\ UNCHANGED progVars

DrvMotorArrives ==
    /\ MotorArrives(1)
    /\ UNCHANGED <<build, last, polls, firedAt>>
    /\ UNCHANGED progVars

DrvSwitchFires ==
    /\ SwitchFires(1)
    /\ firedAt' = IF firedAt = 0 THEN Len(polls) + 1 ELSE firedAt
    /\ UNCHANGED <<build, last, polls>>
    /\ UNCHANGED progVars

DrvNext ==
    \/ CallSetTarget
    \/ CallTargetReached
    \/ CallSetPosition
    \/ CallHome
    \/ CallHomingInProgress
    \/ CallEnable
    \/ CallDisable
    \/ DrvMotorArrives
    \/ DrvSwitchFires

SpecDrv == DrvInit /\ [][DrvNext]_vars

----------------------------------------------------------------------------
(* The setters of the fields that share a register, called one at a time on *)
(* axis 1                                                                   *)

NibbleInputs == {0, 15}
PMulInputs == {127, MOTOR3_PMUL, MOTOR12_PMUL, 255}
PDivInputs == {0, MOTOR_PDIV, 15}

\* settings the driver never writes, as an IC may hold them when the driver is
\* constructed: the low byte of the divider register, the high nibble of the
\* byte of PDIV
StrayLowBytes == {0, 3}
StrayHighNibbles == {0, 160}

CfgInit ==
    /\ build \in {"cpython", "micropython"}
    /\ \E u \in StrayLowBytes, h \in StrayHighNibbles :
          LET ic == [PowerOn(MOTOR_X_MAX) EXCEPT !.regs[IDX_PULSE_RAMP_DIV] = <<0, 0, u>>,
                                                 !.regs[IDX_PMUL_PDIV] = <<0, 0, h>>]
              d == Fresh(Stepper_Driver_init(ic, MOTOR12_V_MIN, V_MAX_SETTING, PULSE_DIV,
                                             RAMP_DIV, MOTOR12_A_MAX_SETTING, MOTOR12_PMUL,
                                             MOTOR_PDIV))
          IN /\ drivers = [a \in Axes |-> IF a = 1 THEN d ELSE MainDriver(a)]
             /\ last = [op |-> "init", arg |-> 0, err |-> FALSE, val |-> FALSE,
                        before |-> d.regs]
    /\ polls = <<>>
    /\ firedAt = 1
    /\ IdleProg

\* a call on axis 1, with the registers as they were before it
CfgCalled(op, arg, r) ==
    /\ drivers' = [drivers EXCEPT ![1] = r.drv]
    /\ last' = [op |-> op, arg |-> arg, err |-> r.err, val |-> r.val,
                before |-> drivers[1].regs]
    /\ UNCHANGED <<build, polls, firedAt>>
    /\ UNCHANGED progVars

CfgSetPulseDiv ==
    \E p \in NibbleInputs : CfgCalled("set_pulse_div", p, set_pulse_div(Fresh(drivers[1]), p))

CfgSetRampDiv ==
    \E r \in NibbleInputs : CfgCalled("set_ramp_div", r, set_ramp_div(Fresh(drivers[1]), r))

CfgSetPMul ==
    \E m \in PMulInputs : CfgCalled("set_pmul", m, set_pmul(Fresh(drivers[1]), m))

CfgSetPDiv ==
    \E d \in PDivInputs : CfgCalled("set_pdiv", d, set_pdiv(Fresh(drivers[1]), d))

\* set_pulse_div(p) followed by set_ramp_div(r)
CfgPulseThenRamp ==
    \E p \in NibbleInputs, r \in NibbleInputs :
        LET r1 == set_pulse_div(Fresh(drivers[1]), p)
            r2 == set_ramp_div(r1.drv, r)
        IN CfgCalled("pulse_then_ramp", <<p, r>>,
                     IF r1.err THEN r1 ELSE r2)

\* set_ramp_div(r) followed by set_pulse_div(p)
CfgRampThenPulse ==
    \E p \in NibbleInputs, r \in NibbleInputs :
        LET r1 == set_ramp_div(Fresh(drivers[1]), r)
            r2 == set_pulse_div(r1.drv, p)
        IN CfgCalled("ramp_then_pulse", <<p, r>>,
                     IF r1.err THEN r1 ELSE r2)

\* a driver object is constructed again on the IC as it is, as driver1 or driver3
CfgConstruct ==
    \E a \in {1, 3} :
        CfgCalled("init", a,
                  Ret(Stepper_Driver_init(Fresh(drivers[1]), VMinOf(a), V_MAX_SETTING,
                                          PULSE_DIV, RAMP_DIV, AMaxOf(a), PMulOf(a),
                                          MOTOR_PDIV),
                      FALSE, FALSE))

CfgNext ==
    \/ CfgSetPulseDiv
    \/ CfgSetRampDiv
    \/ CfgSetPMul
    \/ CfgSetPDiv
    \/ CfgPulseThenRamp
    \/ CfgRampThenPulse
    \/ CfgConstruct

SpecCfg == CfgInit /\ [][CfgNext]_vars

----------------------------------------------------------------------------
(* tasks.py: the command list *)

\* the joint targets (theta0, theta1) of the planned points, in drawing order:
\* one path on which both arm axes move at every point, one on which a point
\* repeats its predecessor and the second axis stays
Paths ==
    {[j \in 1..MaxPts |-> <<100 * j, 200 + 100 * j>>],
     [j \in 1..MaxPts |-> <<100 * ((j + 1) \div 2), 200>>]}

RECURSIVE SumTo(_, _)
SumTo(lens, i) == IF i = 0 THEN 0 ELSE lens[i] + SumTo(lens, i - 1)

\* the numbers of points of the commands: only the first command can be left
\* without points (its first coordinate pair becomes the starting position)
Shapes ==
    {lens \in UNION {[1..n -> 0..MaxPts] : n \in 0..MaxCmds} :
        /\ \A i \in 2..Len(lens) : lens[i] >= 1
        /\ SumTo(lens, Len(lens)) <= MaxPts}

\* what create_cmd_list can return
CmdLists ==
    {[i \in 1..Len(lens) |->
        [type |-> types[i],
         pts |-> [k \in 1..lens[i] |-> path[SumTo(lens, i - 1) + k]]]] :
        <<lens, types, path>> \in
            {t \in Shapes \X (UNION {[1..n -> {"PU", "PD"}] : n \in 0..MaxCmds}) \X Paths :
                Len(t[1]) = Len(t[2])}}

KindOf(cmd) == IF cmd.type = "PU" THEN TYPE_PEN_UP ELSE TYPE_PEN_DOWN
PenTarget(cmd) == IF cmd.type = "PU" THEN PEN_UP_MS ELSE PEN_DOWN_MS

----------------------------------------------------------------------------
(* tasks.py: task_cmds_fun, one resume of the generator up to its next yield *)

\* Share('L').put(v): the buffer is an array of unsigned 32-bit values, held
\* here as the pair of its high and low 16-bit halves; storing a negative value
\* raises OverflowError under CPython and wraps under MicroPython
PutRaises(v) == v < 0 /\ build = "cpython"
PutL(v) == <<(v \div 65536) % 65536, v % 65536>>

\* outcome of one resume: the drivers, the task's locals, the three shares,
\* the bus and share events in order, and whether the generator raised
Step(drv, task, kind, th0, th1, trace, err) ==
    [drv |-> drv, task |-> task, kind |-> kind, th0 |-> th0, th1 |-> th1,
     trace |-> trace, err |-> err]

Raised(drv, c, trace) ==
    Step(drv, [c EXCEPT !.pc = "raised"], share_cmd_type, share_theta0, share_theta1,
         trace, TRUE)

Yield(drv, c, trace) ==
    Step(drv, c, share_cmd_type, share_theta0, share_theta1, trace, FALSE)

cmds_done(drv, c, trace) ==
    Step(drv, [c EXCEPT !.pc = "final"], TYPE_CMDS_DONE, share_theta0, share_theta1,
         Append(trace, <<"put_cmd_type", TYPE_CMDS_DONE, 0>>), FALSE)

\* cmds_command that takes the list as exhausted one command early
cmds_command_skiplast(drv, c, ci, trace) ==
    IF ci >= Len(cmd_list) THEN cmds_done(drv, c, trace)
    ELSE LET cmd == cmd_list[ci]
             t == set_target(drv[3], PenTarget(cmd))
             d == [drv EXCEPT ![3] = t.drv]
         IN IF t.err THEN Raised(d, c, trace)
            ELSE Step(d, [c EXCEPT !.pc = "pen", !.ci = ci, !.pi = 0, !.okpen = FALSE],
                      KindOf(cmd), share_theta0, share_theta1,
                      trace \o << <<"set_target", 3, PenTarget(cmd)>>,
                                  <<"put_cmd_type", KindOf(cmd), 0>> >>,
                      FALSE)

cmds_command(drv, c, ci, trace) ==
    IF ci > Len(cmd_list) THEN cmds_done(drv, c, trace)
    ELSE LET cmd == cmd_list[ci]
             t == set_target(drv[3], PenTarget(cmd))
             d == [drv EXCEPT ![3] = t.drv]
         IN IF t.err THEN Raised(d, c, trace)
            ELSE Step(d, [c EXCEPT !.pc = "pen", !.ci = ci, !.pi = 0, !.okpen = FALSE],
                      KindOf(cmd), share_theta0, share_theta1,
                      trace \o << <<"set_target", 3, PenTarget(cmd)>>,
                                  <<"put_cmd_type", KindOf(cmd), 0>> >>,
                      FALSE)

cmds_point(drv, c, pi, trace) ==
    IF pi > Len(cmd_list[c.ci].pts) THEN cmds_command(drv, c, c.ci + 1, trace)
    ELSE LET driver1_target == cmd_list[c.ci].pts[pi][1]
             driver2_target == cmd_list[c.ci].pts[pi][2]
             r1 == set_target(drv[1], driver1_target)
             r2 == set_target(drv[2], driver2_target)
             d1 == [drv EXCEPT ![1] = r1.drv]
             d2 == [d1 EXCEPT ![2] = r2.drv]
             tr1 == Append(trace, <<"set_target", 1, driver1_target>>)
             tr2 == Append(tr1, <<"set_target", 2, driver2_target>>)
         IN IF r1.err THEN Raised(d1, c, trace)
            ELSE IF r2.err THEN Raised(d2, c, tr1)
            ELSE IF PutRaises(driver1_target) \/ PutRaises(driver2_target)
                 THEN Raised(d2, c, tr2)
            ELSE Step(d2, [c EXCEPT !.pc = "arm1", !.pi = pi, !.ok1 = FALSE, !.ok2 = FALSE],
                      share_cmd_type, PutL(driver1_target), PutL(driver2_target),
                      Append(tr2, <<"put_theta", driver1_target, driver2_target>>),
                      FALSE)

\* cmds_wait2 that goes on to the next point whatever target_reached returns
cmds_wait2_nowait(drv, c, trace) ==
    LET driver2_target == cmd_list[c.ci].pts[c.pi][2]
        r == target_reached(drv[2], driver2_target)
        d == [drv EXCEPT ![2] = r.drv]
    IN cmds_point(d, [c EXCEPT !.ok2 = r.val], c.pi + 1,
                  IF r.val THEN Append(trace, <<"target_reached", 2, driver2_target>>)
                  ELSE trace)

cmds_wait2(drv, c, trace) ==
    LET driver2_target == cmd_list[c.ci].pts[c.pi][2]
        r == target_reached(drv[2], driver2_target)
        d == [drv EXCEPT ![2] = r.drv]
    IN IF r.val
       THEN cmds_point(d, [c EXCEPT !.ok2 = TRUE], c.pi + 1,
                       Append(trace, <<"target_reached", 2, driver2_target>>))
       ELSE Yield(d, [c EXCEPT !.pc = "arm2"], trace)

cmds_wait1(drv, c, trace) ==
    LET driver1_target == cmd_list[c.ci].pts[c.pi][1]
        r == target_reached(drv[1], driver1_target)
        d == [drv EXCEPT ![1] = r.drv]
    IN IF r.val
       THEN cmds_wait2(d, [c EXCEPT !.ok1 = TRUE],
                       Append(trace, <<"target_reached", 1, driver1_target>>))
       ELSE Yield(d, [c EXCEPT !.pc = "arm1"], trace)

\* cmds_waitpen that goes on to the points whatever target_reached returns
cmds_waitpen_nowait(drv, c, trace) ==
    LET driver3_target == PenTarget(cmd_list[c.ci])
        r == target_reached(drv[3], driver3_target)
        d == [drv EXCEPT ![3] = r.drv]
    IN cmds_point(d, [c EXCEPT !.okpen = r.val], 1,
                  IF r.val THEN Append(trace, <<"target_reached", 3, driver3_target>>)
                  ELSE trace)

cmds_waitpen(drv, c, trace) ==
    LET driver3_target == PenTarget(cmd_list[c.ci])
        r == target_reached(drv[3], driver3_target)
        d == [drv EXCEPT ![3] = r.drv]
    IN IF r.val
       THEN cmds_point(d, [c EXCEPT !.okpen = TRUE], 1,
                       Append(trace, <<"target_reached", 3, driver3_target>>))
       ELSE Yield(d, [c EXCEPT !.pc = "pen"], trace)

\* cmds_gate that does not wait for the button flag
cmds_gate_open(drv, c) ==
    cmds_command(drv, c, 1, <<>>)

cmds_gate(drv, c) ==
    IF share_button_flag # 1 THEN Yield(drv, c, <<>>)
    ELSE cmds_command(drv, c, 1, <<>>)

task_cmds_fun(drv, c) ==
    CASE c.pc = "gate" -> cmds_gate(drv, c)
      [] c.pc = "pen" -> cmds_waitpen(drv, c, <<>>)
      [] c.pc = "arm1" -> cmds_wait1(drv, c, <<>>)
      [] c.pc = "arm2" -> cmds_wait2(drv, c, <<>>)
      [] OTHER -> Raised(drv, c, <<>>)

CmdsStart == [pc |-> "gate", ci |-> 0, pi |-> 0,
              okpen |-> FALSE, ok1 |-> FALSE, ok2 |-> FALSE]

----------------------------------------------------------------------------
(* tasks.py: task_comms_fun, one resume of the generator up to its next yield *)

\* outcome of one resume: the task's locals, the command type share, the
\* records written, and whether the generator raised
CommsStep(task, kind, out, err) ==
    [task |-> task, kind |-> kind, out |-> out, err |-> err]

comms_end(m) ==
    CommsStep([m EXCEPT !.pc = "final"], TYPE_COMMS_DONE, << <<"END", 0, 0>> >>, FALSE)

\* comms_loop that writes the marker of the kind it reads at every turn
comms_loop_marker_each_turn(m) ==
    IF m.cmd_type = TYPE_CMDS_DONE THEN comms_end(m)
    ELSE LET cmd_type == share_cmd_type
             out == IF cmd_type = TYPE_PEN_UP THEN << <<"PU", 0, 0>> >>
                    ELSE IF cmd_type = TYPE_PEN_DOWN THEN << <<"PD", 0, 0>> >>
                    ELSE <<>>
         IN CommsStep([pc |-> "loop", cmd_type |-> cmd_type, last_cmd_type |-> cmd_type],
                      share_cmd_type, out, FALSE)

comms_loop(m) ==
    IF m.cmd_type = TYPE_CMDS_DONE THEN comms_end(m)
    ELSE LET cmd_type == share_cmd_type
             out == IF cmd_type # m.last_cmd_type
                    THEN IF cmd_type = TYPE_PEN_UP THEN << <<"PU", 0, 0>> >>
                         ELSE IF cmd_type = TYPE_PEN_DOWN THEN << <<"PD", 0, 0>> >>
                         ELSE <<>>
                    ELSE IF cmd_type > 0
                         THEN << <<"sample", share_theta0, share_theta1>> >>
                         ELSE <<>>
         IN CommsStep([pc |-> "loop", cmd_type |-> cmd_type, last_cmd_type |-> cmd_type],
                      share_cmd_type, out, FALSE)

comms_gate(m) ==
    IF share_button_flag # 1 THEN CommsStep(m, share_cmd_type, <<>>, FALSE)
    ELSE comms_loop([m EXCEPT !.last_cmd_type = 0, !.cmd_type = share_cmd_type])

task_comms_fun(m) ==
    CASE m.pc = "gate" -> comms_gate(m)
      [] m.pc = "loop" -> comms_loop(m)
      [] OTHER -> CommsStep([m EXCEPT !.pc = "raised"], share_cmd_type, <<>>, TRUE)

CommsStart == [pc |-> "gate", cmd_type |-> 0, last_cmd_type |-> 0]

----------------------------------------------------------------------------
(* cotask: one pass of the priority scheduler *)

Priority(t) == IF t = "cmds" THEN TASK_CMDS_PRIORITY ELSE TASK_COMMS_PRIORITY

\* the task a pass resumes among those whose period has elapsed: the one of
\* highest priority, none when no task is ready
pri_sched(ready) ==
    IF ready = {} THEN "none"
    ELSE CHOOSE t \in ready : \A u \in ready : Priority(u) <= Priority(t)

----------------------------------------------------------------------------
(* tasks.py: __main__ *)

HomingOrder == <<3, 1, 2>>

AllFresh(drv) == [a \in Axes |-> Fresh(drv[a])]


\* the kinds PU and PD published in a resume of task_cmds_fun
PubKinds(trace) ==
    LET puts == SelectSeq(trace, LAMBDA e : e[1] = "put_cmd_type" /\ e[2] # TYPE_CMDS_DONE)
    IN [i \in 1..Len(puts) |-> puts[i][2]]

\* what a pass did: the tasks that were ready, the task resumed, the events of
\* its resume, its locals before the resume, and whether it raised
Pass(task, ready, trace, pre, err) ==
    [task |-> task, ready |-> ready, trace |-> trace, pre |-> pre, err |-> err]

\* what can be wrong with the drawing file: a coordinate token float() cannot
\* parse, or a target point for which g(x, theta) has no root
Faults == {"none", "token", "unreachable"}

ProgInit ==
    /\ build = "micropython"
    /\ drivers = [a \in Axes |-> PowerOn(MOTOR_X_MAX)]
    /\ last = [op |-> "init", arg |-> 0, err |-> FALSE, val |-> FALSE]
    /\ polls = <<>>
    /\ firedAt = 1
    /\ mainpc = [at |-> "plan", k |-> 0, n |-> 0]
    /\ hpgl \in [list : CmdLists, fault : Faults]
    /\ cmd_list = <<>>
    /\ share_button_flag = NoShare
    /\ share_cmd_type = 0
    /\ share_theta0 = PutL(0)
    /\ share_theta1 = PutL(0)
    /\ cmds = CmdsStart
    /\ comms = CommsStart
    /\ uart = <<>>
    /\ ev = Pass("start", {}, <<>>, CmdsStart, FALSE)
    /\ pubs = <<>>
    /\ isr_error = FALSE

\* create_cmd_list that goes on past a token it cannot parse
MainPlan_skip_bad_token ==
    /\ mainpc.at = "plan"
    /\ mainpc' = [at |-> "solve", k |-> 0, n |-> 0]
    /\ UNCHANGED <<build, drivers, last, polls, firedAt, hpgl, cmd_list,
                   share_button_flag, share_cmd_type, share_theta0, share_theta1, cmds,
                   comms, uart, ev, pubs, isr_error>>

\* create_cmd_list up to its conversion loop: float() raises on a token it
\* cannot parse, and nothing catches it
MainPlan ==
    /\ mainpc.at = "plan"
    /\ mainpc' = IF hpgl.fault = "token" THEN [at |-> "crashed", k |-> 0, n |-> 0]
                 ELSE [at |-> "solve", k |-> 0, n |-> 0]
    /\ UNCHANGED <<build, drivers, last, polls, firedAt, hpgl, cmd_list,
                   share_button_flag, share_cmd_type, share_theta0, share_theta1, cmds,
                   comms, uart, ev, pubs, isr_error>>

\* the conversion loop of create_cmd_list.  For points that have a root the
\* solves return and planning yields the command list.  For a point without a
\* root the test of NewtonRaphson's while loop is true at every theta: a turn
\* of the loop either leads to the next turn or raises in the numeric library
\* (a singular jacobian, a value that is not a number)
MainSolve ==
    /\ mainpc.at = "solve"
    /\ IF hpgl.fault = "unreachable"
       THEN /\ \/ mainpc' = [mainpc EXCEPT !.n = 1 - @]
               \/ mainpc' = [at |-> "crashed", k |-> 0, n |-> 0]
            /\ UNCHANGED cmd_list
       ELSE /\ cmd_list' = hpgl.list
            /\ mainpc' = [at |-> "construct", k |-> 0, n |-> 0]
    /\ UNCHANGED <<build, drivers, last, polls, firedAt, hpgl,
                   share_button_flag, share_cmd_type, share_theta0, share_theta1, cmds,
                   comms, uart, ev, pubs, isr_error>>

\* driver1, driver2 and driver3 are constructed
MainConstruct ==
    /\ mainpc.at = "construct"
    /\ drivers' = [a \in Axes |-> MainDriver(a)]
    /\ mainpc' = [at |-> "startup", k |-> 0, n |-> 0]
    /\ UNCHANGED <<build, last, polls, firedAt, hpgl, cmd_list,
                   share_button_flag, share_cmd_type, share_theta0, share_theta1, cmds,
                   comms, uart, ev, pubs, isr_error>>

\* disable homing and enable motors
MainDisableHoming ==
    /\ mainpc.at = "startup"
    /\ drivers' = [a \in Axes |-> enable(homing_in_progress(Fresh(drivers[a])).drv)]
    /\ mainpc' = [at |-> "home", k |-> 1, n |-> 0]
    /\ UNCHANGED <<build, last, polls, firedAt, hpgl, cmd_list, share_button_flag,
                   share_cmd_type, share_theta0, share_theta1, cmds, comms, uart, ev,
                   pubs, isr_error>>

HomingVMax(a) == IF a = 1 THEN MOTOR1_HOMING_V_MAX ELSE MOTOR23_HOMING_V_MAX
VMin(a) == IF a = 3 THEN MOTOR3_V_MIN ELSE MOTOR12_V_MIN

\* set the homing velocity and start homing the next motor
MainHome ==
    /\ mainpc.at = "home"
    /\ LET a == HomingOrder[mainpc.k]
       IN drivers' = [drivers EXCEPT
                        ![a] = home(set_velocity(Fresh(drivers[a]), 1, HomingVMax(a))).drv]
    /\ mainpc' = [mainpc EXCEPT !.at = "wait"]
    /\ UNCHANGED <<build, last, polls, firedAt, hpgl, cmd_list, share_button_flag,
                   share_cmd_type, share_theta0, share_theta1, cmds, comms, uart, ev,
                   pubs, isr_error>>

\* one test of  while drivers[a].homing_in_progress(): pass  and what follows it
MainPollHoming ==
    /\ mainpc.at = "wait"
    /\ LET a == HomingOrder[mainpc.k]
           r == homing_in_progress(Fresh(drivers[a]))
       IN IF r.val
          THEN /\ drivers' = [drivers EXCEPT ![a] = r.drv]
               /\ mainpc' = [mainpc EXCEPT !.n = 1 - @]
          ELSE /\ drivers' = [drivers EXCEPT
                                ![a] = set_velocity(r.drv, VMin(a), V_MAX_SETTING)]
               /\ mainpc' = IF mainpc.k < Len(HomingOrder)
                            THEN [at |-> "home", k |-> mainpc.k + 1, n |-> 0]
                            ELSE [at |-> "create", k |-> 0, n |-> 0]
    /\ UNCHANGED <<build, last, polls, firedAt, hpgl, cmd_list, share_button_flag,
                   share_cmd_type, share_theta0, share_theta1, cmds, comms, uart, ev,
                   pubs, isr_error>>

\* create the shares and the tasks
MainCreateTasks ==
    /\ mainpc.at = "create"
    /\ share_button_flag' = 0
    /\ share_cmd_type' = 0
    /\ share_theta0' = PutL(0)
    /\ share_theta1' = PutL(0)
    /\ cmds' = CmdsStart
    /\ comms' = CommsStart
    /\ mainpc' = [at |-> "sched", k |-> 0, n |-> 0]
    /\ UNCHANGED <<build, drivers, last, polls, firedAt, hpgl, cmd_list, uart, ev, pubs,
                   isr_error>>

RunCmds(ready) ==
    LET r == task_cmds_fun(AllFresh(drivers), cmds)
    IN /\ drivers' = r.drv
       /\ cmds' = r.task
       /\ share_cmd_type' = r.kind
       /\ share_theta0' = r.th0
       /\ share_theta1' = r.th1
       /\ ev' = Pass("cmds", ready, r.trace, cmds, r.err)
       /\ pubs' = pubs \o PubKinds(r.trace)
       /\ mainpc' = IF r.err THEN [at |-> "crashed", k |-> 0, n |-> 0] ELSE mainpc
       /\ UNCHANGED <<comms, uart>>

RunComms(ready) ==
    LET r == task_comms_fun(comms)
    IN /\ Len(uart) < MaxUart
       /\ drivers' = AllFresh(drivers)
       /\ comms' = r.task
       /\ share_cmd_type' = r.kind
       /\ uart' = uart \o r.out
       /\ ev' = Pass("comms", ready, <<>>, cmds, r.err)
       /\ mainpc' = IF r.err THEN [at |-> "crashed", k |-> 0, n |-> 0] ELSE mainpc
       /\ UNCHANGED <<cmds, share_theta0, share_theta1, pubs>>

RunNone(ready) ==
    /\ drivers' = AllFresh(drivers)
    /\ ev' = Pass("none", ready, <<>>, cmds, FALSE)
    /\ UNCHANGED <<mainpc, cmds, comms, share_cmd_type, share_theta0, share_theta1,
                   uart, pubs>>

\* one turn of  while not share_cmd_type.get() == 3: cotask.task_list.pri_sched()
MainPass ==
    /\ mainpc.at = "sched"
    /\ share_cmd_type # MAIN_EXIT_TYPE
    /\ \E ready \in SUBSET {"cmds", "comms"} :
          LET t == pri_sched(ready)
          IN CASE t = "cmds" -> RunCmds(ready)
               [] t = "comms" -> RunComms(ready)
               [] OTHER -> RunNone(ready)
    /\ UNCHANGED <<build, last, polls, firedAt, hpgl, cmd_list, share_button_flag, isr_error>>

\* a pass in which task_cmds_fun is resumed past its gate and the bus transfer
\* of its first driver call raises: nothing catches the exception, __main__
\* ends with it
MainPassFault ==
    /\ mainpc.at = "sched"
    /\ share_cmd_type # MAIN_EXIT_TYPE
    /\ share_button_flag = 1
    /\ cmds.pc \in {"gate", "pen", "arm1", "arm2"}
    /\ drivers' = AllFresh(drivers)
    /\ cmds' = [cmds EXCEPT !.pc = "raised"]
    /\ ev' = Pass("cmds", {"cmds"}, <<>>, cmds, TRUE)
    /\ mainpc' = [at |-> "crashed", k |-> 0, n |-> 0]
    /\ UNCHANGED <<build, last, polls, firedAt, hpgl, cmd_list, share_button_flag,
                   share_cmd_type, share_theta0, share_theta1, comms, uart, pubs,
                   isr_error>>

\* the loop ends and the motors are disabled
MainExit ==
    /\ mainpc.at = "sched"
    /\ share_cmd_type = MAIN_EXIT_TYPE
    /\ drivers' = [a \in Axes |-> disable(Fresh(drivers[a]))]
    /\ mainpc' = [at |-> "done", k |-> 0, n |-> 0]
    /\ UNCHANGED <<build, last, polls, firedAt, hpgl, cmd_list, share_button_flag,
                   share_cmd_type, share_theta0, share_theta1, cmds, comms, uart, ev,
                   pubs, isr_error>>

Running == mainpc.at \in {"plan", "solve", "construct", "startup", "home", "wait",
                           "create", "sched"}

\* a button interrupt that toggles the flag
onButtonPressFCN_toggle ==
    /\ Running
    /\ IF share_button_flag = NoShare
       THEN /\ isr_error' = TRUE
            /\ UNCHANGED share_button_flag
       ELSE /\ share_button_flag' = 1 - share_button_flag
            /\ UNCHANGED isr_error
    /\ UNCHANGED <<build, drivers, last, polls, firedAt, mainpc, hpgl, cmd_list,
                   share_cmd_type, share_theta0, share_theta1, cmds, comms, uart, ev,
                   pubs>>

\* the button interrupt
onButtonPressFCN ==
    /\ Running
    /\ IF share_button_flag = NoShare
       THEN /\ isr_error' = TRUE
            /\ UNCHANGED share_button_flag
       ELSE /\ share_button_flag' = 1
            /\ UNCHANGED isr_error
    /\ UNCHANGED <<build, drivers, last, polls, firedAt, mainpc, hpgl, cmd_list,
                   share_cmd_type, share_theta0, share_theta1, cmds, comms, uart, ev,
                   pubs>>

ProgMotorArrives ==
    /\ Running
    /\ \E a \in Axes : MotorArrives(a)
    /\ UNCHANGED <<build, last, polls, firedAt>>
    /\ UNCHANGED progVars

ProgSwitchFires ==
    /\ Running
    /\ \E a \in Axes : SwitchFires(a)
    /\ UNCHANGED <<build, last, polls, firedAt>>
    /\ UNCHANGED progVars

\* the steps of __main__
MainNext ==
    \/ MainPlan
    \/ MainSolve
    \/ MainConstruct
    \/ MainDisableHoming
    \/ MainHome
    \/ MainPollHoming
    \/ MainCreateTasks
    \/ MainPass
    \/ MainPassFault
    \/ MainExit

Next ==
    \/ MainNext
    \/ onButtonPressFCN
    \/ ProgMotorArrives
    \/ ProgSwitchFires

Spec == ProgInit /\ [][Next]_vars

\* the interpreter goes on executing __main__ as long as it has a next step;
\* nothing is assumed of the button, the motors and the limit switches.  This
\* is weak fairness of MainNext: planning is named by itself, and for the whole
\* of MainNext the condition is written out with Running, which is what
\* enables a step of __main__
FairSpec ==
    /\ Spec
    /\ WF_vars(MainPlan \/ MainSolve)
    /\ []<>(~Running) \/ []<><<MainNext>>_vars

----------------------------------------------------------------------------
(* The program on drawings whose points lie far from the arm's pivot *)

\* command lists of one PD command with one point: both joint targets within
\* MOTOR_X_MAX, the second above it, the first above it
FarCmdLists ==
    {<<[type |-> "PD", pts |-> <<p>>]>> :
        p \in {<<100, 300>>, <<100, MOTOR_X_MAX + 100>>, <<MOTOR_X_MAX + 100, 300>>}}

FarInit ==
    /\ build = "micropython"
    /\ drivers = [a \in Axes |-> PowerOn(MOTOR_X_MAX)]
    /\ last = [op |-> "init", arg |-> 0, err |-> FALSE, val |-> FALSE]
    /\ polls = <<>>
    /\ firedAt = 1
    /\ mainpc = [at |-> "plan", k |-> 0, n |-> 0]
    /\ hpgl \in [list : FarCmdLists, fault : Faults]
    /\ cmd_list = <<>>
    /\ share_button_flag = NoShare
    /\ share_cmd_type = 0
    /\ share_theta0 = PutL(0)
    /\ share_theta1 = PutL(0)
    /\ cmds = CmdsStart
    /\ comms = CommsStart
    /\ uart = <<>>
    /\ ev = Pass("start", {}, <<>>, CmdsStart, FALSE)
    /\ pubs = <<>>
    /\ isr_error = FALSE

\* a pass of the top-level loop that resumes task_cmds_fun
CmdsPass ==
    /\ mainpc.at = "sched"
    /\ share_cmd_type # MAIN_EXIT_TYPE
    /\ \E ready \in SUBSET {"cmds", "comms"} :
          pri_sched(ready) = "cmds" /\ RunCmds(ready)
    /\ UNCHANGED <<build, last, polls, firedAt, hpgl, cmd_list, share_button_flag, isr_error>>

\* the motor of axis a arrives at the position held in its target register
AxisArrives(a) ==
    /\ Running
    /\ MotorArrives(a)
    /\ UNCHANGED <<build, last, polls, firedAt>>
    /\ UNCHANGED progVars

\* the program with a scheduler that resumes task_cmds_fun again and again for
\* as long as the top-level loop runs, and motors that arrive at their targets
FairRunSpec ==
    /\ FarInit
    /\ [][Next]_vars
    /\ \A a \in Axes : WF_vars(AxisArrives(a))
    /\ []<>(mainpc.at # "sched") \/ []<><<CmdsPass>>_vars

----------------------------------------------------------------------------
(* Properties of the driver *)

Max(a, b) == IF a > b THEN a ELSE b
Min(a, b) == IF a < b THEN a ELSE b

\* C1: for every integer x, negative x included, set_target(x) raises no error
\* and leaves X_TARGET equal to max(0, min(x, x_max)).
C1_TargetSaturatedBothEnds ==
    last.op = "set_target" =>
        /\ ~last.err
        /\ XTarget(drivers[1]) = Max(0, Min(last.arg, drivers[1].x_max))

\* C2: for every x above x_max, set_target(x) raises no error and sends exactly
\* one datagram, a write of X_TARGET whose bytes 1..3 are x_max, high byte first.
C2_AboveMaxWritesXMax ==
    (last.op = "set_target" /\ last.arg > drivers[1].x_max) =>
        /\ ~last.err
        /\ Len(drivers[1].log) = 1
        /\ LET d == drivers[1].log[1]
           IN /\ d[1] = 0
              /\ \A i \in 2..4 : d[i] \in 0..255
              /\ d[2] * 65536 + d[3] * 256 + d[4] = drivers[1].x_max
        /\ XTarget(drivers[1]) = drivers[1].x_max

C2_Witness ==
    /\ last.op = "set_target"
    /\ last.arg = drivers[1].x_max + 1000
    /\ ~last.err
    /\ XTarget(drivers[1]) = drivers[1].x_max

\* C6: when the latch reads 'not fired' for polls 1..N-1 and 'fired' from poll N
\* on, homing_in_progress() returns true for polls 1..N-1 and false from poll N
\* on, and X_ACTUAL is 0 right after a poll that returned false.
C6_HomingPolls ==
    /\ \A i \in 1..Len(polls) : polls[i] = (firedAt = 0 \/ i < firedAt)
    /\ (last.op = "homing_in_progress" /\ ~last.val) => XActual(drivers[1]) = 0

C6_Witness ==
    /\ firedAt = 2
    /\ polls = <<TRUE, FALSE, FALSE>>
    /\ last.op = "homing_in_progress"
    /\ XActual(drivers[1]) = 0

\* C7: when homing_in_progress() returns false, the reference configuration
\* still holds the 'switch disabled' value the call wrote, and X_TARGET and
\* X_ACTUAL are both 0.
C7_SwitchLeftDisabled ==
    (last.op = "homing_in_progress" /\ ~last.val) =>
        /\ RefConf(drivers[1]) = 3
        /\ XTarget(drivers[1]) = 0
        /\ XActual(drivers[1]) = 0

----------------------------------------------------------------------------
(* Properties of the program *)

AllDisabled == \A a \in Axes : drivers[a].en = 1

\* C3: the top-level loop does not exit before the command type share holds
\* "comms done", and when it has exited all three enable lines are high.
C3_RunsUntilCommsDone ==
    mainpc.at = "done" =>
        /\ share_cmd_type = TYPE_COMMS_DONE
        /\ AllDisabled

IsEnd(r) == r[1] = "END"

\* C4: when task_cmds_fun has published "commands done" and the top-level loop
\* has stopped, END has been written exactly once, as the last record, and
\* task_comms_fun has published "comms done" and finished.
C4_EndBeforeExit ==
    (mainpc.at = "done" /\ cmds.pc = "final") =>
        /\ Len(SelectSeq(uart, IsEnd)) = 1
        /\ IsEnd(uart[Len(uart)])
        /\ comms.pc = "final"
        /\ share_cmd_type = TYPE_COMMS_DONE

RECURSIVE Changes(_)
\* the pen-state changes in a sequence of published kinds
Changes(ks) ==
    IF Len(ks) <= 1 THEN ks
    ELSE LET rest == Changes(SubSeq(ks, 1, Len(ks) - 1))
         IN IF ks[Len(ks)] = ks[Len(ks) - 1] THEN rest ELSE Append(rest, ks[Len(ks)])

IsMarker(r) == r[1] \in {"PU", "PD"}

\* the kinds of the PU and PD records written, in order
Markers ==
    LET ms == SelectSeq(uart, IsMarker)
    IN [i \in 1..Len(ms) |-> IF ms[i][1] = "PU" THEN TYPE_PEN_UP ELSE TYPE_PEN_DOWN]

\* C5: the markers written are the published pen-state changes, in order and
\* with none skipped: at any time they are the first ones of those changes.
C5_NoPenChangeSkipped ==
    LET ch == Changes(pubs)
    IN /\ Len(Markers) <= Len(ch)
       /\ \A i \in 1..Len(Markers) : Markers[i] = ch[i]

IsTargetWrite(d) == d[1] = 2 * IDX_X_TARGET

WroteTarget(a) == SelectSeq(drivers[a].log, IsTargetWrite) # <<>>

\* an event before position j of the last resume's trace
Before(j, e) == \E i \in 1..(j - 1) : ev.trace[i] = e

\* C8: the pen target is written and the command kind published in the same
\* resume, and no arm target is written before target_reached has returned
\* true on the pen axis for the command's pen target.
C8_PenBeforeArm ==
    ev.task = "cmds" =>
        LET tr == ev.trace
        IN /\ \A a \in Axes :
                 WroteTarget(a) <=> \E j \in 1..Len(tr) : tr[j][1] = "set_target" /\ tr[j][2] = a
           /\ \A j \in 1..Len(tr) :
                 /\ (tr[j][1] = "set_target" /\ tr[j][2] = 3) =>
                        /\ j < Len(tr)
                        /\ tr[j][3] = PenTarget(cmd_list[cmds.ci])
                        /\ tr[j + 1] = <<"put_cmd_type", KindOf(cmd_list[cmds.ci]), 0>>
                        /\ share_cmd_type = KindOf(cmd_list[cmds.ci])
                 /\ (tr[j][1] = "put_cmd_type" /\ tr[j][2] # TYPE_CMDS_DONE) =>
                        /\ j > 1
                        /\ tr[j - 1][1] = "set_target"
                        /\ tr[j - 1][2] = 3
                 /\ (tr[j][1] = "set_target" /\ tr[j][2] \in {1, 2}) =>
                        \/ ev.pre.okpen /\ ev.pre.ci = cmds.ci
                        \/ Before(j, <<"target_reached", 3, PenTarget(cmd_list[cmds.ci])>>)

C8_Witness ==
    /\ ev.task = "cmds"
    /\ WroteTarget(1)
    /\ ~ev.pre.okpen
    /\ cmds.okpen

\* C9: the points of a command are commanded in list order, both arm targets
\* written and (theta0, theta1) published in one resume, and no target is
\* written after a point before target_reached has returned true on both arm
\* axes for that point.
C9_PointsInOrder ==
    ev.task = "cmds" =>
        LET tr == ev.trace
            followed == ev.pre.pc \in {"arm1", "arm2"}
        IN \A j \in 1..Len(tr) :
              /\ (tr[j][1] = "set_target" /\ tr[j][2] = 1) =>
                    LET pt == cmd_list[cmds.ci].pts[cmds.pi]
                    IN /\ j + 2 = Len(tr)
                       /\ tr[j] = <<"set_target", 1, pt[1]>>
                       /\ tr[j + 1] = <<"set_target", 2, pt[2]>>
                       /\ tr[j + 2] = <<"put_theta", pt[1], pt[2]>>
                       /\ XTarget(drivers[1]) = pt[1]
                       /\ XTarget(drivers[2]) = pt[2]
                       /\ share_theta0 = PutL(pt[1])
                       /\ share_theta1 = PutL(pt[2])
                       /\ cmds.ci = ev.pre.ci
                       /\ cmds.pi = IF followed THEN ev.pre.pi + 1 ELSE 1
              /\ (tr[j][1] = "set_target" /\ tr[j][2] = 2) =>
                    /\ j > 1
                    /\ tr[j - 1][1] = "set_target"
                    /\ tr[j - 1][2] = 1
              /\ (tr[j][1] = "put_theta") =>
                    /\ j > 2
                    /\ tr[j - 2][1] = "set_target"
              /\ (tr[j][1] = "set_target" /\ followed) =>
                    LET was == cmd_list[ev.pre.ci].pts[ev.pre.pi]
                    IN /\ ev.pre.ok1 \/ Before(j, <<"target_reached", 1, was[1]>>)
                       /\ ev.pre.ok2 \/ Before(j, <<"target_reached", 2, was[2]>>)

C9_Witness ==
    /\ ev.task = "cmds"
    /\ ev.pre.pc = "arm2"
    /\ ev.pre.pi = 1
    /\ cmds.pi = 2
    /\ WroteTarget(1)
    /\ WroteTarget(2)

IsDone(e) == e = <<"put_cmd_type", TYPE_CMDS_DONE, 0>>

\* target_reached has returned true for what task_cmds_fun, with locals c, waits
\* for: the pen target of command c.ci when c.pi = 0, else both targets of its
\* point c.pi; either in an earlier resume or in the last one
Confirmed(c, tr) ==
    IF c.pi = 0
    THEN c.okpen \/ \E i \in 1..Len(tr) :
                       tr[i] = <<"target_reached", 3, PenTarget(cmd_list[c.ci])>>
    ELSE LET pt == cmd_list[c.ci].pts[c.pi]
         IN /\ c.okpen
            /\ c.ok1 \/ \E i \in 1..Len(tr) : tr[i] = <<"target_reached", 1, pt[1]>>
            /\ c.ok2 \/ \E i \in 1..Len(tr) : tr[i] = <<"target_reached", 2, pt[2]>>

\* C11: task_cmds_fun goes through the commands and their points one by one,
\* each commanded and then confirmed reached before the next; it publishes
\* "commands done" only from the last point of the last command, as the last
\* thing it does, and afterwards writes no target and publishes nothing.
C11_DoneOnlyAtEnd ==
    /\ ev.task = "cmds" =>
          LET tr == ev.trace
              pre == ev.pre
          IN /\ cmds.ci \in {pre.ci, pre.ci + 1}
             /\ cmds.ci = pre.ci + 1 =>
                   /\ cmds.pi = 0
                   /\ pre.ci > 0 => pre.pi = Len(cmd_list[pre.ci].pts) /\ Confirmed(pre, tr)
                   /\ \E i \in 1..Len(tr) :
                         tr[i] = <<"set_target", 3, PenTarget(cmd_list[cmds.ci])>>
             /\ cmds.ci = pre.ci => cmds.pi \in {pre.pi, pre.pi + 1}
             /\ (cmds.ci = pre.ci /\ cmds.pi = pre.pi + 1) =>
                   /\ Confirmed(pre, tr)
                   /\ \A a \in {1, 2} : \E i \in 1..Len(tr) :
                         tr[i] = <<"set_target", a, cmd_list[cmds.ci].pts[cmds.pi][a]>>
             /\ \A j \in 1..Len(tr) : IsDone(tr[j]) =>
                   /\ j = Len(tr)
                   /\ cmds.pc = "final"
                   /\ \A i \in 1..Len(tr) : tr[i][1] \notin {"set_target", "put_theta"}
                   /\ pre.ci = Len(cmd_list)
                   /\ pre.ci > 0 => pre.pi = Len(cmd_list[pre.ci].pts) /\ Confirmed(pre, tr)
    /\ cmds.pc = "final" =>
          /\ ev.task = "cmds"
          /\ ev.trace # <<>>
          /\ IsDone(ev.trace[Len(ev.trace)])
          /\ share_cmd_type = TYPE_CMDS_DONE

C11_Witness ==
    /\ cmds.pc = "final"
    /\ Len(cmd_list) = 2
    /\ cmds.pi = 1
    /\ mainpc.at = "done"

BothReady == ev.ready = {"cmds", "comms"}

\* C12: in a pass in which task_cmds_fun and task_comms_fun are both ready,
\* task_cmds_fun is the one resumed.
C12_CmdsWinsWhenBothReady ==
    BothReady => ev.task = "cmds"

----------------------------------------------------------------------------
(* Properties of the fields that share a register *)

PulseDivOf(regs) == regs[IDX_PULSE_RAMP_DIV][2] \div 16
RampDivOf(regs) == regs[IDX_PULSE_RAMP_DIV][2] % 16

\* the last call left every register but idx, and bytes 1 and 3 of idx, as they were
KeptAround(idx) ==
    /\ \A i \in RegIdx \ {idx} : drivers[1].regs[i] = last.before[i]
    /\ drivers[1].regs[idx][1] = last.before[idx][1]
    /\ drivers[1].regs[idx][3] = last.before[idx][3]

\* C13: with 4-bit arguments, set_pulse_div(p) then set_ramp_div(r), and
\* set_ramp_div(r) then set_pulse_div(p), leave the shared byte at 16 * p + r;
\* each setter alone sets its own nibble and leaves the other nibble, the other
\* two bytes and the other registers as they were; none raises.
C13_DividersIndependent ==
    LET now == drivers[1].regs
        was == last.before
    IN /\ last.op = "set_pulse_div" =>
             /\ ~last.err
             /\ PulseDivOf(now) = last.arg
             /\ RampDivOf(now) = RampDivOf(was)
             /\ KeptAround(IDX_PULSE_RAMP_DIV)
       /\ last.op = "set_ramp_div" =>
             /\ ~last.err
             /\ RampDivOf(now) = last.arg
             /\ PulseDivOf(now) = PulseDivOf(was)
             /\ KeptAround(IDX_PULSE_RAMP_DIV)
       /\ last.op \in {"pulse_then_ramp", "ramp_then_pulse"} =>
             /\ ~last.err
             /\ now[IDX_PULSE_RAMP_DIV][2] = 16 * last.arg[1] + last.arg[2]
             /\ KeptAround(IDX_PULSE_RAMP_DIV)

C13_Witness ==
    /\ last.op = "ramp_then_pulse"
    /\ last.arg = <<15, 0>>
    /\ last.before[IDX_PULSE_RAMP_DIV] = <<0, 16 * PULSE_DIV + RAMP_DIV, 3>>
    /\ drivers[1].regs[IDX_PULSE_RAMP_DIV] = <<0, 240, 3>>

\* C14: set_pmul(m) changes only the byte of PMUL, whose low seven bits become
\* m's (the whole byte is m for m in 128..255), and leaves the byte of PDIV as
\* it was; set_pdiv(d), d of 4 bits, changes only the low nibble of the byte of
\* PDIV and leaves the byte of PMUL as it was; neither raises.
C14_PMulPDivIndependent ==
    LET now == drivers[1].regs[IDX_PMUL_PDIV]
        was == last.before[IDX_PMUL_PDIV]
    IN /\ last.op = "set_pmul" =>
             /\ ~last.err
             /\ now[2] % 128 = last.arg % 128
             /\ last.arg >= 128 => now[2] = last.arg
             /\ KeptAround(IDX_PMUL_PDIV)
       /\ last.op = "set_pdiv" =>
             /\ ~last.err
             /\ now[3] % 16 = last.arg
             /\ now[3] \div 16 = was[3] \div 16
             /\ now[2] = was[2]
             /\ now[1] = was[1]
             /\ \A i \in RegIdx \ {IDX_PMUL_PDIV} : drivers[1].regs[i] = last.before[i]

C14_Witness ==
    /\ last.op = "set_pmul"
    /\ last.arg = MOTOR3_PMUL
    /\ last.before[IDX_PMUL_PDIV] = <<0, 255, 175>>
    /\ drivers[1].regs[IDX_PMUL_PDIV] = <<0, MOTOR3_PMUL, 175>>

IsSharedWrite(d) == d[1] \in {2 * IDX_PULSE_RAMP_DIV, 2 * IDX_PMUL_PDIV}

\* C15: on every axis, a write of the divider register or of the PMUL/PDIV
\* register directly follows a read of the same register, and its payload is
\* the payload read with at most one field replaced.
C15_ReadBeforeSharedWrite ==
    \A a \in Axes :
        LET log == drivers[a].log
        IN \A j \in 1..Len(log) : IsSharedWrite(log[j]) =>
              /\ j > 1
              /\ log[j - 1][1] = log[j][1] + 1
              /\ LET rd == SubSeq(log[j - 1], 6, 8)
                     wr == SubSeq(log[j], 2, 4)
                 IN /\ wr[1] = rd[1]
                    /\ IF log[j][1] = 2 * IDX_PULSE_RAMP_DIV
                       THEN /\ wr[3] = rd[3]
                            /\ wr[2] \div 16 = rd[2] \div 16 \/ wr[2] % 16 = rd[2] % 16
                       ELSE \/ wr[3] = rd[3]
                            \/ wr[2] = rd[2] /\ wr[3] \div 16 = rd[3] \div 16

C15_Witness ==
    /\ last.op = "init"
    /\ last.arg = 3
    /\ Len(SelectSeq(drivers[1].log, IsSharedWrite)) = 4
    /\ drivers[1].regs[IDX_PMUL_PDIV] = <<0, MOTOR3_PMUL, 160 + MOTOR_PDIV>>

----------------------------------------------------------------------------
(* Properties of what follows homing *)

\* the step is a call of homing_in_progress() on axis 1
IsPoll == polls' = Append(polls, last'.val) /\ last'.op = "homing_in_progress"

\* C16: a call of homing_in_progress() made after it has returned false since
\* the last home(), with the latch still reading 'fired', leaves X_TARGET,
\* X_ACTUAL, the ramp mode and the reference configuration as they were.
C16_RepollIsNoOp ==
    [][(/\ IsPoll
        /\ \E i \in 1..Len(polls) : ~polls[i]
        /\ drivers[1].lp = 0)
       => /\ XTarget(drivers[1])' = XTarget(drivers[1])
          /\ XActual(drivers[1])' = XActual(drivers[1])
          /\ RampMode(drivers[1])' = RampMode(drivers[1])
          /\ RefConf(drivers[1])' = RefConf(drivers[1])]_vars

----------------------------------------------------------------------------
(* Properties of errors and of termination *)

C18_DisabledAfterRuntimeError ==
    (mainpc.at = "crashed" /\ ev.err) => AllDisabled

\* C19: the wait for an axis's homing always comes to an end, whether or not
\* the limit switch fires.
C19_HomingWaitEnds ==
    (mainpc.at = "wait") ~> (mainpc.at # "wait")

\* C20: the Newton-Raphson solves of planning always come to an end, with a
\* result or with an error.
C20_SolveTerminates ==
    (mainpc.at = "solve") ~> (mainpc.at # "solve")

----------------------------------------------------------------------------
(* Properties of home, set_position and set_ramp_mode *)

\* the first bytes of the datagrams of the last call on axis 1, in order
Addresses == [j \in 1..Len(drivers[1].log) |-> drivers[1].log[j][1]]

\* the payload of datagram j of the last call on axis 1, as a number
Payload(j) == FromBytes(SubSeq(drivers[1].log[j], 2, 4))

\* what holds when home() returns
HomeReturned ==
    /\ ~last.err
    /\ Addresses = <<20, 0, 2, 20, 21, 20, 28, 0>>
    /\ drivers[1].log[1][4] = 2
    /\ Payload(2) = drivers[1].x_max
    /\ Payload(3) = drivers[1].x_max
    /\ drivers[1].log[4][4] = 0
    /\ drivers[1].log[6][3] % 16 = 2
    /\ Payload(8) = 0
    /\ RefConf(drivers[1]) = 2
    /\ RampMode(drivers[1]) = 0
    /\ drivers[1].lp = 1
    /\ XTarget(drivers[1]) = 0
    /\ XActual(drivers[1]) = drivers[1].x_max

\* C27: a call of home() sends, in this order, the four datagrams of
\* set_position(x_max), the read and the write of the reference configuration
\* that enables the switch, the dummy write of X_LATCHED and last the write of
\* target 0; when it returns the switch is enabled, X_TARGET is 0 and X_ACTUAL
\* is x_max.
C27_HomeOrder ==
    [][(last.op # "home" /\ last'.op = "home") => HomeReturned']_vars

C27_Witness ==
    /\ last.op = "home"
    /\ drivers[1].x_max = WideXMax
    /\ Addresses = <<20, 0, 2, 20, 21, 20, 28, 0>>
    /\ XActual(drivers[1]) = WideXMax
    /\ XTarget(drivers[1]) = 0

\* C28: for 0 <= x <= x_max, set_position(x) sends in order ramp mode :=
\* velocity, X_TARGET := x, X_ACTUAL := x, ramp mode := ramp, so that both
\* registers are written in velocity mode only; on return X_TARGET = X_ACTUAL
\* = x and the IC is in ramp mode.
C28_SetPositionOrder ==
    (last.op = "set_position" /\ last.arg >= 0 /\ last.arg <= drivers[1].x_max) =>
        /\ ~last.err
        /\ Addresses = <<20, 0, 2, 20>>
        /\ drivers[1].log[1][4] = 2
        /\ Payload(2) = last.arg
        /\ Payload(3) = last.arg
        /\ drivers[1].log[4][4] = 0
        /\ XTarget(drivers[1]) = last.arg
        /\ XActual(drivers[1]) = last.arg
        /\ RampMode(drivers[1]) = 0

C28_Witness ==
    /\ last.op = "set_position"
    /\ last.arg = 256
    /\ XTarget(drivers[1]) = 256
    /\ XActual(drivers[1]) = 256

\* C30: set_ramp_mode, in either mode, and so set_position, leave the
\* reference configuration of the register they write as it was.
C30_RampModeKeepsRefConf ==
    /\ \A mode \in {"ramp_mode", "velocity_mode"} :
          RefConf(set_ramp_mode(drivers[1], mode)) = RefConf(drivers[1])
    /\ RefConf(set_position(drivers[1], 0).drv) = RefConf(drivers[1])

----------------------------------------------------------------------------
(* Properties of the shares *)

\* C25: share_button_flag, once created, changes only in a step of the button
\* interrupt, which puts 1 and touches nothing else; once it is 1 it is 1 in
\* every later state.
C25_StartGateMonotone ==
    [][/\ share_button_flag = 1 => share_button_flag' = 1
       /\ (share_button_flag # NoShare /\ share_button_flag' # share_button_flag) =>
              /\ share_button_flag' = 1
              /\ UNCHANGED <<mainpc, drivers, cmd_list, share_cmd_type, share_theta0,
                             share_theta1, cmds, comms, uart, ev, pubs>>]_vars

C25_Witness ==
    /\ share_button_flag = 1
    /\ share_cmd_type = MAIN_EXIT_TYPE
    /\ mainpc.at = "done"

\* "commands done" has been put in share_cmd_type
DonePublished == cmds.pc = "final"

\* C29: once the button flag is set and the top-level loop runs, task_cmds_fun
\* gets past every wait and puts "commands done", unless the program ends with
\* an exception; also for joint targets above x_max.
C29_CmdsReachesDone ==
    (mainpc.at = "sched" /\ share_button_flag = 1) ~> (DonePublished \/ mainpc.at = "crashed")

----------------------------------------------------------------------------
(* tasks.py and pc_plotter.py: the homing and polarity correction of a joint
   target and its inverse *)

MaxSteps == 100

\* tasks.py
MOTOR1_HOMING_ANGLE == -1820
MOTOR1_POLARITY == 1
MOTOR2_HOMING_ANGLE == -3139
MOTOR2_POLARITY == -1

\* pc_plotter.py
PC_MOTOR1_HOMING_ANGLE == -1820
PC_MOTOR1_POLARITY == 1
PC_MOTOR2_HOMING_ANGLE == -3139
PC_MOTOR2_POLARITY == -1

convert_motor1_target(microsteps) == MOTOR1_POLARITY * (microsteps - MOTOR1_HOMING_ANGLE)

\* convert_motor2_target without the polarity
convert_motor2_target_unsigned(microsteps) == microsteps - MOTOR2_HOMING_ANGLE

convert_motor2_target(microsteps) == MOTOR2_POLARITY * (microsteps - MOTOR2_HOMING_ANGLE)

\* Python's  a / b  on numbers: the quotient as a fraction <<numerator,
\* denominator>> with a positive denominator (a float holds it exactly when
\* the denominator divides the numerator and the quotient is below 2^53)
TrueDiv(a, b) == IF b < 0 THEN <<-a, -b>> ELSE <<a, b>>

\* fraction + integer
FracPlus(f, n) == <<f[1] + n * f[2], f[2]>>

\* fraction == integer
FracIs(f, n) == f[1] = n * f[2]

revert_motor1_target(microsteps) ==
    FracPlus(TrueDiv(microsteps, PC_MOTOR1_POLARITY), PC_MOTOR1_HOMING_ANGLE)

revert_motor2_target(microsteps) ==
    FracPlus(TrueDiv(microsteps, PC_MOTOR2_POLARITY), PC_MOTOR2_HOMING_ANGLE)

\* microstep values: around zero, around the values the corrections map to
\* zero, and the ends of the 24-bit range
StepInputs ==
    (-MaxSteps .. MaxSteps)
        \cup {MOTOR1_HOMING_ANGLE, MOTOR2_HOMING_ANGLE, MOTOR_X_MAX, -(2^23), 2^23 - 1}

ConvInit ==
    /\ build = "cpython"
    /\ drivers = [a \in Axes |-> PowerOn(MOTOR_X_MAX)]
    /\ last = [op |-> "init", axis |-> 0, arg |-> 0, err |-> FALSE, val |-> 0, of |-> 0]
    /\ polls = <<>>
    /\ firedAt = 0
    /\ IdleProg

\* the planner corrects a microstep value for an arm axis
ConvConvert ==
    /\ \E axis \in {1, 2}, m \in StepInputs :
          last' = [op |-> "convert", axis |-> axis, arg |-> m, err |-> FALSE,
                   val |-> IF axis = 1 THEN convert_motor1_target(m)
                           ELSE convert_motor2_target(m),
                   of |-> m]
    /\ UNCHANGED <<build, drivers, polls, firedAt>>
    /\ UNCHANGED progVars

\* the visualizer reverts the target the planner produced
ConvRevert ==
    /\ last.op = "convert"
    /\ last' = [op |-> "revert", axis |-> last.axis, arg |-> last.val, err |-> FALSE,
                val |-> IF last.axis = 1 THEN revert_motor1_target(last.val)
                        ELSE revert_motor2_target(last.val),
                of |-> last.of]
    /\ UNCHANGED <<build, drivers, polls, firedAt>>
    /\ UNCHANGED progVars

ConvNext == ConvConvert \/ ConvRevert

SpecConv == ConvInit /\ [][ConvNext]_vars

\* C24: on each arm axis the planner's target is polarity * (m - homing
\* offset); the visualizer's revert of that target is m; and the polarity and
\* homing constants of the two files are the same.
C24_RevertUndoesConvert ==
    /\ MOTOR1_POLARITY = PC_MOTOR1_POLARITY
    /\ MOTOR2_POLARITY = PC_MOTOR2_POLARITY
    /\ MOTOR1_HOMING_ANGLE = PC_MOTOR1_HOMING_ANGLE
    /\ MOTOR2_HOMING_ANGLE = PC_MOTOR2_HOMING_ANGLE
    /\ last.op = "convert" =>
          last.val = (IF last.axis = 1 THEN MOTOR1_POLARITY ELSE MOTOR2_POLARITY)
                       * (last.arg - (IF last.axis = 1 THEN MOTOR1_HOMING_ANGLE
                                      ELSE MOTOR2_HOMING_ANGLE))
    /\ last.op = "revert" => FracIs(last.val, last.of)

C24_Witness ==
    /\ last.op = "revert"
    /\ last.axis = 2
    /\ last.of = 57
    /\ last.arg = -3196
    /\ last.val = <<57, 1>>

----------------------------------------------------------------------------
(* tasks.py: create_cmd_list on the characters of the first line of the
   drawing file.  A string is a sequence of one-character strings; lengths are
   whole micrometres, in which MM_PER_IN / DPI = 25.4 mm / 1016 is 25 exactly;
   the rounding of the single-precision arrays is not modelled *)

MaxTokens == 3

DPI == 1016
\* MM_PER_IN = 25.4
UM_PER_IN == 25400
\* MAX_MM_DIST = 0.5
MAX_UM_DIST == 500

\* pen up, no coordinates
TokPU == <<"P", "U">>

\* pen up at the origin
TokPU00 == <<"P", "U", "0", ",", "0">>

\* pen down at the origin
TokPD00 == <<"P", "D", "0", ",", "0">>

\* pen down, a line of 100 plotter units = 2.5 mm
TokPDLine == <<"P", "D", "0", ",", "0", ",", "1", "0", "0", ",", "0">>

\* pen down at (30, 50) plotter units
TokPDFar == <<"P", "D", "3", "0", ",", "5", "0">>

\* select pen
TokSP == <<"S", "P", "1">>

\* PU after another letter
TokXPU == <<"X", "P", "U", "0", ",", "0">>

\* a label whose text is PD
TokLB == <<"L", "B", "P", "D">>

Tokens == {TokPU, TokPU00, TokPD00, TokPDLine, TokPDFar, TokSP, TokXPU, TokLB}

RECURSIVE JoinTokens(_)
\* the file's line: every token followed by ";"
JoinTokens(ts) == IF ts = <<>> THEN <<>> ELSE Head(ts) \o <<";">> \o JoinTokens(Tail(ts))

\* the lines of the drawing files considered
Lines == {JoinTokens(ts) : ts \in UNION {[1..n -> Tokens] : n \in 1..MaxTokens}}

RECURSIVE Split(_, _)
\* str.split(sep) with a separator of one character
Split(str, sep) ==
    IF \A i \in 1..Len(str) : str[i] # sep THEN <<str>>
    ELSE LET k == CHOOSE i \in 1..Len(str) :
                       str[i] = sep /\ \A j \in 1..(i - 1) : str[j] # sep
         IN <<SubSeq(str, 1, k - 1)>> \o Split(SubSeq(str, k + 1, Len(str)), sep)

\* op in str, for op of two characters
Has(str, op) == \E i \in 1..(Len(str) - 1) : str[i] = op[1] /\ str[i + 1] = op[2]

\* the test of the filter loop
Kept(str) == Has(str, <<"P", "U">>) \/ Has(str, <<"P", "D">>)

\* a filter that keeps the strings that start with PU or PD
KeptAtStart(str) ==
    Len(str) >= 2 /\ SubSeq(str, 1, 2) \in {<<"P", "U">>, <<"P", "D">>}

DigitOf == [c \in {"0", "1", "2", "3", "4", "5", "6", "7", "8", "9"} |->
              CASE c = "0" -> 0 [] c = "1" -> 1 [] c = "2" -> 2 [] c = "3" -> 3
                [] c = "4" -> 4 [] c = "5" -> 5 [] c = "6" -> 6 [] c = "7" -> 7
                [] c = "8" -> 8 [] OTHER -> 9]

\* float(str) raises ValueError: of the strings considered, those that are
\* not a run of digits
FloatRaises(str) == str = <<>> \/ \E i \in 1..Len(str) : str[i] \notin DOMAIN DigitOf

RECURSIVE FloatOf(_)
\* float(str) of a run of digits
FloatOf(str) ==
    IF str = <<>> THEN 0
    ELSE 10 * FloatOf(SubSeq(str, 1, Len(str) - 1)) + DigitOf[str[Len(str)]]

\* float(arg) / DPI * MM_PER_IN, in micrometres
ToUm(v) == (v * UM_PER_IN) \div DPI

\* the while loop over arg_list raises: ValueError from float(), IndexError
\* from arg_list[i + 1]
ArgsRaise(arg_list) ==
    \/ Len(arg_list) % 2 = 1
    \/ \E i \in 1..Len(arg_list) : FloatRaises(arg_list[i])

\* x_arr and y_arr of a command, as a sequence of points
ArgPoints(arg_list) ==
    [k \in 1..(Len(arg_list) \div 2) |->
        <<ToUm(FloatOf(arg_list[2 * k - 1])), ToUm(FloatOf(arg_list[2 * k]))>>]

\* the parsing part of create_cmd_list after the filter loop
ParseCmds(cmd_str_list) ==
    LET with_args == SelectSeq(cmd_str_list, LAMBDA cmd : Len(cmd) > 2)
        arg_lists == [i \in 1..Len(with_args) |->
                        Split(SubSeq(with_args[i], 3, Len(with_args[i])), ",")]
    IN IF \E i \in 1..Len(with_args) : ArgsRaise(arg_lists[i])
       THEN [err |-> TRUE, list |-> <<>>]
       ELSE [err |-> FALSE,
             list |-> [i \in 1..Len(with_args) |->
                         [type |-> with_args[i][1] \o with_args[i][2],
                          pts |-> ArgPoints(arg_lists[i])]]]

Abs(v) == IF v < 0 THEN -v ELSE v

\* int(math.ceil(v / MAX_MM_DIST)) for v >= 0
Increments(v) == (v + MAX_UM_DIST - 1) \div MAX_UM_DIST

\* a point of the new arrays: (x / den, y / den)
Pt(x, y, den) == [x |-> x, y |-> y, den |-> den]

\* Segment that appends the end point only when the pair is apart
Segment_skip_repeat(prev, next) ==
    LET x_diff == next[1] - prev[1]
        y_diff == next[2] - prev[2]
        increments == Increments(Max(Abs(x_diff), Abs(y_diff)))
    IN [from |-> prev, to |-> next,
        out |-> [p \in 1..increments |->
                    Pt(prev[1] * increments + p * x_diff,
                       prev[2] * increments + p * y_diff, increments)]]

\* one turn of the while loop: the points appended for the pair (prev, next)
Segment(prev, next) ==
    LET x_diff == next[1] - prev[1]
        y_diff == next[2] - prev[2]
        increments == Increments(Max(Abs(x_diff), Abs(y_diff)))
    IN [from |-> prev, to |-> next,
        out |-> [p \in 1..Max(increments - 1, 0) |->
                    Pt(prev[1] * increments + p * x_diff,
                       prev[2] * increments + p * y_diff, increments)]
                 \o <<Pt(next[1], next[2], 1)>>]

RECURSIVE Flatten(_)
Flatten(seqs) == IF seqs = <<>> THEN <<>> ELSE Head(seqs) \o Flatten(Tail(seqs))

\* the interpolation part: prev_x is None in the first command only, whose
\* first point becomes prev and is not appended
Interpolate(list) ==
    [ci \in 1..Len(list) |->
        LET pts == list[ci].pts
            start == IF ci = 1 THEN 2 ELSE 1
            before == IF ci = 1 THEN pts[1] ELSE list[ci - 1].pts[Len(list[ci - 1].pts)]
            segs == [j \in 1..(Len(pts) - start + 1) |->
                       Segment(IF j = 1 THEN before ELSE pts[start + j - 2],
                               pts[start + j - 1])]
        IN [type |-> list[ci].type,
            given |-> pts,
            segs |-> segs,
            pts |-> Flatten([j \in 1..Len(segs) |-> segs[j].out])]]

\* the conversion part: every point of the new arrays is replaced in place by
\* its pair of joint targets; the solve is not computed, a pair is named by
\* its point
Convert(list) ==
    [ci \in 1..Len(list) |->
        [type |-> list[ci].type, given |-> list[ci].given, segs |-> list[ci].segs,
         pts |-> list[ci].pts,
         targets |-> [k \in 1..Len(list[ci].pts) |-> <<"targets of", list[ci].pts[k]>>]]]

\* create_cmd_list after the filter loop
PlanCmds(cmd_str_list) ==
    LET parsed == ParseCmds(cmd_str_list)
    IN IF parsed.err THEN parsed
       ELSE [err |-> FALSE, list |-> Convert(Interpolate(parsed.list))]

create_cmd_list(line) == PlanCmds(SelectSeq(Split(line, ";"), Kept))

PlanInit ==
    /\ build = "micropython"
    /\ drivers = [a \in Axes |-> PowerOn(MOTOR_X_MAX)]
    /\ last = [op |-> "init", err |-> FALSE, val |-> <<>>]
    /\ polls = <<>>
    /\ firedAt = 0
    /\ mainpc = "off"
    /\ hpgl \in Lines
    /\ cmd_list = <<>>
    /\ share_button_flag = 0
    /\ share_cmd_type = 0
    /\ share_theta0 = <<0, 0>>
    /\ share_theta1 = <<0, 0>>
    /\ cmds = [pc |-> "off"]
    /\ comms = [pc |-> "off"]
    /\ uart = <<>>
    /\ ev = [task |-> "none"]
    /\ pubs = <<>>
    /\ isr_error = FALSE

\* cmd_list = create_cmd_list()
PlanCall ==
    /\ last.op = "init"
    /\ LET r == create_cmd_list(hpgl)
       IN /\ last' = [op |-> "create_cmd_list", err |-> r.err, val |-> r.list]
          /\ cmd_list' = [ci \in 1..Len(r.list) |->
                            [type |-> r.list[ci].type, pts |-> r.list[ci].targets]]
    /\ UNCHANGED <<build, drivers, polls, firedAt, mainpc, hpgl, share_button_flag,
                   share_cmd_type, share_theta0, share_theta1, cmds, comms, uart, ev,
                   pubs, isr_error>>

PlanNext == PlanCall

SpecPlan == PlanInit /\ [][PlanNext]_vars

----------------------------------------------------------------------------
(* Properties of create_cmd_list *)

Planned == last.op = "create_cmd_list" /\ ~last.err

\* the point q of the new arrays lies on the straight segment from a to b
OnSegment(q, a, b) ==
    /\ (q.x - a[1] * q.den) * (b[2] - a[2]) = (q.y - a[2] * q.den) * (b[1] - a[1])
    /\ Min(a[1], b[1]) * q.den <= q.x /\ q.x <= Max(a[1], b[1]) * q.den
    /\ Min(a[2], b[2]) * q.den <= q.y /\ q.y <= Max(a[2], b[2]) * q.den

\* the points p and q are at most MAX_MM_DIST apart in each axis
Near(p, q) ==
    /\ Abs(p.x * q.den - q.x * p.den) <= MAX_UM_DIST * p.den * q.den
    /\ Abs(p.y * q.den - q.y * p.den) <= MAX_UM_DIST * p.den * q.den

\* the points appended for a pair lie on its segment
InsertedOnSegments ==
    \A ci \in 1..Len(last.val) : \A j \in 1..Len(last.val[ci].segs) :
        LET seg == last.val[ci].segs[j]
        IN \A k \in 1..Len(seg.out) : OnSegment(seg.out[k], seg.from, seg.to)

\* from the first point of a pair to its last, no step is longer than
\* MAX_MM_DIST in an axis
StepsBounded ==
    \A ci \in 1..Len(last.val) : \A j \in 1..Len(last.val[ci].segs) :
        LET seg == last.val[ci].segs[j]
            chain == <<Pt(seg.from[1], seg.from[2], 1)>> \o seg.out
        IN \A k \in 1..(Len(chain) - 1) : Near(chain[k], chain[k + 1])

\* every point of the file is a point of the new arrays of its command
GivenKept ==
    \A ci \in 1..Len(last.val) : \A i \in 1..Len(last.val[ci].given) :
        LET pt == last.val[ci].given[i]
        IN \E k \in 1..Len(last.val[ci].pts) : last.val[ci].pts[k] = Pt(pt[1], pt[2], 1)

\* C21: in the interpolation every inserted point lies on the segment of its
\* pair, consecutive points are at most 0.5 mm apart in each axis, and every
\* point of the file, the first of the drawing included, is in the output.
C21_InterpolationKeepsPoints ==
    Planned => InsertedOnSegments /\ StepsBounded /\ GivenKept

\* the greater of |dx| and |dy| of a pair
Reach(seg) == Max(Abs(seg.to[1] - seg.from[1]), Abs(seg.to[2] - seg.from[2]))

\* n = ceil(reach / MAX_MM_DIST)
IsCeil(n, reach) == (n - 1) * MAX_UM_DIST < reach /\ reach <= n * MAX_UM_DIST

\* every point of the new arrays has its one pair of joint targets
OneTargetEach ==
    \A ci \in 1..Len(last.val) :
        /\ Len(last.val[ci].targets) = Len(last.val[ci].pts)
        /\ Len(cmd_list[ci].pts) = Len(last.val[ci].pts)
        /\ \A k \in 1..Len(last.val[ci].pts) :
              cmd_list[ci].pts[k] = <<"targets of", last.val[ci].pts[k]>>

PlanExample == JoinTokens(<<TokPU, TokPDLine, TokPU>>)

\* "PU;PD0,0,100,0;PU;" gives one PD command with 5 pairs of joint targets
ExampleYieldsFive ==
    hpgl = PlanExample =>
        /\ Len(cmd_list) = 1
        /\ cmd_list[1].type = "PD"
        /\ Len(cmd_list[1].pts) = 5

\* C22 as stated: for every interpolated pair, n = ceil(max(|dx|, |dy|) /
\* 0.5 mm) points are emitted; every emitted point gives one pair of joint
\* targets; the example gives one PD command with 5 pairs.
C22_EmitsCeilPoints ==
    Planned =>
        /\ \A ci \in 1..Len(last.val) : \A j \in 1..Len(last.val[ci].segs) :
              IsCeil(Len(last.val[ci].segs[j].out), Reach(last.val[ci].segs[j]))
        /\ OneTargetEach
        /\ ExampleYieldsFive

\* C22 amended: for every interpolated pair whose points differ, n points are
\* emitted, n - 1 inserted and the end point; for a pair of equal points the
\* end point alone is emitted; the rest as stated.
C22_EmitsCeilPointsOrOne ==
    Planned =>
        /\ \A ci \in 1..Len(last.val) : \A j \in 1..Len(last.val[ci].segs) :
              LET seg == last.val[ci].segs[j]
              IN /\ Reach(seg) > 0 => IsCeil(Len(seg.out), Reach(seg))
                 /\ Reach(seg) = 0 => Len(seg.out) = 1
                 /\ seg.out[Len(seg.out)] = Pt(seg.to[1], seg.to[2], 1)
        /\ OneTargetEach
        /\ ExampleYieldsFive

C22_Witness ==
    /\ Planned
    /\ hpgl = JoinTokens(<<TokPU00, TokPD00, TokPDLine>>)
    /\ Len(cmd_list) = 3
    /\ Len(cmd_list[2].pts) = 1
    /\ Len(cmd_list[3].pts) = 6

\* C23: the outcome of planning is that of planning the line without the
\* tokens that do not start with PU or PD, and every command is PU or PD and
\* is given the pen target of its own type.
C23_OnlyLeadingOpcodes ==
    last.op = "create_cmd_list" =>
        /\ LET r == PlanCmds(SelectSeq(Split(hpgl, ";"), KeptAtStart))
           IN last.err = r.err /\ last.val = r.list
        /\ \A ci \in 1..Len(cmd_list) :
              \/ cmd_list[ci].type = "PU" /\ PenTarget(cmd_list[ci]) = PEN_UP_MS
              \/ cmd_list[ci].type = "PD" /\ PenTarget(cmd_list[ci]) = PEN_DOWN_MS

----------------------------------------------------------------------------
(* tasks.py: g and NewtonRaphson, pc_plotter.py: the pen position of a pose.
   Lengths are whole multiples of 1e-4 mm.  A pose theta is held as the pair
   of the arm's angle theta0 / 6, given by 5 cos and 5 sin, and of the radius
   RD / (2 pi) * theta1; the poses are those of a grid on which the sines and
   cosines are rational *)

W == 2700000
H == 900000
D == 420000
\* the thresh argument of the call in create_cmd_list, 1e-4
THRESH == 1

Angles == {<<5, 0>>, <<4, 3>>, <<3, 4>>, <<0, 5>>}
Radii == {-1500000, -1000000, -500000}
Thetas == Angles \X Radii

\* what a floating-point evaluation of g can differ by from its exact value
Roundings == {-1, 0, 1}

\* pc_plotter.py: the pen position (robot[0][2], robot[1][2]) of a pose
PenPosition(theta) ==
    LET cos5 == theta[1][1]
        sin5 == theta[1][2]
        arm_radius == -theta[2]
        cart == <<W - (arm_radius * cos5) \div 5, H - (arm_radius * sin5) \div 5>>
    IN <<cart[1] + (D * sin5) \div 5, cart[2] - (D * cos5) \div 5>>

\* tasks.py: g(x, theta), exactly
g(x, theta) ==
    LET cos5 == theta[1][1]
        sin5 == theta[1][2]
    IN <<x[1] - (W + (theta[2] * cos5) \div 5 + (D * sin5) \div 5),
         x[2] - (H + (theta[2] * sin5) \div 5 - (D * cos5) \div 5)>>

\* the test of the while loop, with and in place of or
LoopTest_and(gv, thresh) == Abs(gv[1]) > thresh /\ Abs(gv[2]) > thresh

\* the test of the while loop of NewtonRaphson
LoopTest(gv, thresh) == Abs(gv[1]) > thresh \/ Abs(gv[2]) > thresh

\* the target points: the pen positions of the grid and points near them
Offsets == {0, 2, 50}
Targets ==
    {<<PenPosition(t)[1] + dx, PenPosition(t)[2] + dy>> :
        t \in Thetas, dx \in Offsets, dy \in Offsets}

KinRecord(x, theta, e, pc) ==
    [op |-> "NewtonRaphson", x |-> x, theta |-> theta,
     g |-> <<g(x, theta)[1] + e[1], g(x, theta)[2] + e[2]>>, pc |-> pc,
     err |-> FALSE, val |-> FALSE]

\* theta = guess; g = fcn(theta)
KinInit ==
    /\ build = "micropython"
    /\ drivers = [a \in Axes |-> PowerOn(MOTOR_X_MAX)]
    /\ \E x \in Targets, guess \in Thetas, e \in Roundings \X Roundings :
          last = KinRecord(x, guess, e, "loop")
    /\ polls = <<>>
    /\ firedAt = 0
    /\ IdleProg

\* one turn of the while loop: the value of theta - inv(J) g is not computed,
\* it can be any pose of the grid
KinIterate ==
    /\ last.op = "NewtonRaphson"
    /\ last.pc = "loop"
    /\ LoopTest(last.g, THRESH)
    /\ \E theta \in Thetas, e \in Roundings \X Roundings :
          last' = KinRecord(last.x, theta, e, "loop")
    /\ UNCHANGED <<build, drivers, polls, firedAt>>
    /\ UNCHANGED progVars

\* return theta
KinReturn ==
    /\ last.op = "NewtonRaphson"
    /\ last.pc = "loop"
    /\ ~LoopTest(last.g, THRESH)
    /\ last' = [last EXCEPT !.pc = "returned"]
    /\ UNCHANGED <<build, drivers, polls, firedAt>>
    /\ UNCHANGED progVars

KinNext == KinIterate \/ KinReturn

SpecKin == KinInit /\ [][KinNext]_vars

\* C26: the pen position of the pose that NewtonRaphson returns for a point
\* is within 1e-3 mm of the point in each component.
C26_RoundTripWithinTolerance ==
    (last.op = "NewtonRaphson" /\ last.pc = "returned") =>
        /\ Abs(PenPosition(last.theta)[1] - last.x[1]) <= 10 * THRESH
        /\ Abs(PenPosition(last.theta)[2] - last.x[2]) <= 10 * THRESH

C26_Witness ==
    /\ last.op = "NewtonRaphson"
    /\ last.pc = "returned"
    /\ last.theta = <<<<4, 3>>, -1000000>>
    /\ PenPosition(last.theta)[1] - last.x[1] = -2
    /\ PenPosition(last.theta)[2] - last.x[2] = 0

----------------------------------------------------------------------------
(* Properties of the button interrupt and of the records written to the UART *)

\* C31: a button press at any time of the run, also before the shares are
\* created, finds the flag object and sets the flag: the handler never raises.
C31_PressAlwaysHandled == ~isr_error

IsSample(r) == r[1] = "sample"

\* the pair of a record is that of a point of the command list
PairOfSomePoint(r) ==
    \E ci \in 1..Len(cmd_list) : \E pi \in 1..Len(cmd_list[ci].pts) :
        /\ r[2] = PutL(cmd_list[ci].pts[pi][1])
        /\ r[3] = PutL(cmd_list[ci].pts[pi][2])

\* C32: every numeric record written carries the (theta0, theta1) of one
\* planned point, as task_cmds_fun put them together; never the values the
\* shares hold before any put.
C32_SamplesArePublishedPairs ==
    \A i \in 1..Len(uart) : IsSample(uart[i]) => PairOfSomePoint(uart[i])

\* C33: nothing is written while no command kind has been put; the first
\* record written is a PU or PD marker; two successive markers are of
\* different kinds.
C33_MarkerFirstAndAlternating ==
    /\ pubs = <<>> => uart = <<>>
    /\ uart # <<>> => IsMarker(uart[1])
    /\ \A i \in 1..(Len(Markers) - 1) : Markers[i] # Markers[i + 1]

C33_Witness ==
    /\ Len(uart) = 2
    /\ uart[1][1] = "PU"
    /\ uart[2][1] = "PD"
    /\ Len(pubs) >= 2

====
